---------------------------- MODULE Spec2Model ----------------------------
(***************************************************************************)
(* A model of mqtxtar's archiver (internal/archiver): the path safener,    *)
(* the exclusion matcher, the tree walk of Create, the txtar wire format   *)
(* and ListOrExtract.                                                      *)
(*                                                                         *)
(* Strings and byte slices are sequences of one-character strings, so that *)
(* prefixes, segments and lines are computed as the Go code computes them. *)
(***************************************************************************)
EXTENDS Integers, Sequences, FiniteSets, TLC

VARIABLES
    a,          \* the Archiver (archiver.go:29-43)
    Separator,  \* the host's filepath.Separator
    arg,        \* SpecPath: the path handed to ToHostPath / FromHostPath
    called,     \* SpecPath: which function was called ("" before the call)
    got,        \* SpecPath: what it returned
    verb,       \* the operation of this run: "c" Create, "t" list, "x" extract
    pc,         \* where the operation is
    err,        \* what the operation returned: "" while it runs, "nil", or
                \* the wrapping message of its error
    unreadable, \* the host paths that cannot be read (files) or listed (dirs)
    ta,         \* Create: the txtar.Archive being built
    root,       \* Create: the index in a.Paths of the path being walked
    pending,    \* Create: the calls WalkDir has still to make for that path
    visit,      \* what the last call of the walk function (Create) or of
                \* extractFromArchive (list/extract) did
    stderr,     \* Create: the lines logged when verbose
    disk,       \* the bytes of the file named a.Filename
    stdio,      \* the bytes of standard output (Create) or input (list/extract)
    opened,     \* Create: the archive file was opened (created or truncated)
    written,    \* Create: the bytes handed to the sink's Write, once written
    sinkio,     \* Create: how the sink's I/O went: "" before any, "ok", or
                \* the step that failed, "open", "write" or "close"
    ar,         \* list/extract: the parsed archive
    fi,         \* list/extract: the index in ar.Files of the file in hand
    w,          \* list/extract: the listing output
    tree,       \* list/extract: the directories and files extraction made
    flags,      \* main: the command line's flags, as far as main's order of
                \* work goes: c, x, t set, a -C directory given, a -I file given
    listFile,   \* main: the bytes of the file named by -I
    effects     \* main: what main has done so far, in order

pathVars == <<arg, called, got>>

createVars == <<ta, root, pending, visit, stderr, opened, written, sinkio>>

listVars == <<ar, fi, w, tree>>

mainVars == <<flags, listFile, effects>>

runVars == <<verb, pc, err, unreadable, disk, stdio>>

vars == <<a, Separator, pathVars, runVars, createVars, listVars, mainVars>>

-----------------------------------------------------------------------------
(* Bounds *)

\* Longest path handed to the safener.
MaxPathLen == 7

\* Most paths given to one run.
MaxPaths == 2

\* Longest exclude glob handed to isExcluded on its own.
MaxGlobLen == 4

-----------------------------------------------------------------------------
(* Strings *)

\* strings.HasPrefix
HasPrefix(s, prefix) ==
    /\ Len(s) >= Len(prefix)
    /\ SubSeq(s, 1, Len(prefix)) = prefix

\* strings.HasSuffix
HasSuffix(s, suffix) ==
    /\ Len(s) >= Len(suffix)
    /\ SubSeq(s, Len(s) - Len(suffix) + 1, Len(s)) = suffix

\* strings.TrimLeft(s, "/"): s without its leading slashes.
RECURSIVE TrimLeftSlash(_)
TrimLeftSlash(s) ==
    IF s # <<>> /\ Head(s) = "/" THEN TrimLeftSlash(Tail(s)) ELSE s

\* strings.ReplaceAll for single characters.
ReplaceChar(s, old, new) ==
    [i \in 1..Len(s) |-> IF s[i] = old THEN new ELSE s[i]]

\* filepath.FromSlash: every "/" becomes the host's separator.
FromSlash(s) ==
    IF Separator = "/" THEN s ELSE ReplaceChar(s, "/", Separator)

\* filepath.ToSlash: every host separator becomes "/".
ToSlash(s) ==
    IF Separator = "/" THEN s ELSE ReplaceChar(s, Separator, "/")

-----------------------------------------------------------------------------
(* path.Clean, as the Go standard library computes it: r is the index of   *)
(* the next byte to read (from 0), out the bytes written so far, dotdot    *)
(* the length of the prefix of out that ".." may not remove.               *)

\* The ".." case's backtrack: drop the last element of out, down to dotdot.
RECURSIVE CleanBacktrack(_, _, _)
CleanBacktrack(out, n, dotdot) ==
    IF n > dotdot /\ out[n + 1] # "/"
    THEN CleanBacktrack(out, n - 1, dotdot)
    ELSE SubSeq(out, 1, n)

\* The end (from 0, exclusive) of the path element starting at r.
RECURSIVE ElementEnd(_, _)
ElementEnd(path, r) ==
    IF r < Len(path) /\ path[r + 1] # "/" THEN ElementEnd(path, r + 1) ELSE r

RECURSIVE CleanLoop(_, _, _, _, _)

\* The loop's last case, a real path element, which ends at e: add a slash
\* if needed, copy the element.
CleanElement(path, rooted, r, e, out, dotdot) ==
    CleanLoop(path, rooted, e,
              (IF (rooted /\ Len(out) # 1) \/ (~rooted /\ Len(out) # 0)
               THEN Append(out, "/") ELSE out) \o SubSeq(path, r + 1, e),
              dotdot)

\* The loop's ".." case when it cannot backtrack and the path is not
\* rooted: out with a ".." element appended, which no later ".." removes.
CleanDotDot(path, r, out) == CleanLoop(path, FALSE, r + 2, out, Len(out))

CleanLoop(path, rooted, r, out, dotdot) ==
    IF r >= Len(path) THEN out
    ELSE IF path[r + 1] = "/"
    THEN \* empty path element
         CleanLoop(path, rooted, r + 1, out, dotdot)
    ELSE IF path[r + 1] = "." /\ (r + 1 = Len(path) \/ path[r + 2] = "/")
    THEN \* . element
         CleanLoop(path, rooted, r + 1, out, dotdot)
    ELSE IF /\ path[r + 1] = "."
            /\ path[r + 2] = "."
            /\ (r + 2 = Len(path) \/ path[r + 3] = "/")
    THEN \* .. element: remove to last /
         IF Len(out) > dotdot
         THEN CleanLoop(path, rooted, r + 2,
                        CleanBacktrack(out, Len(out) - 1, dotdot), dotdot)
         ELSE IF ~rooted
         THEN CleanDotDot(path, r,
                          (IF Len(out) > 0 THEN Append(out, "/") ELSE out)
                              \o <<".", ".">>)
         ELSE CleanLoop(path, rooted, r + 2, out, dotdot)
    ELSE CleanElement(path, rooted, r, ElementEnd(path, r), out, dotdot)

\* Turn empty string into "."
DotIfEmpty(p) == IF p = <<>> THEN <<".">> ELSE p

Clean(path) ==
    IF path = <<>> THEN <<".">>
    ELSE IF path[1] = "/"
    THEN DotIfEmpty(CleanLoop(path, TRUE, 1, <<"/">>, 1))
    ELSE DotIfEmpty(CleanLoop(path, FALSE, 0, <<>>, 0))

-----------------------------------------------------------------------------
(* The path safener (archiver.go:140-169) *)

\* maybeSafenPath with the UnsafePaths test dropped: always safens.
maybeSafenPath_alwaysSafen(p) ==
    DotIfEmpty(TrimLeftSlash(Clean(
        IF HasPrefix(p, <<".", ".">>) THEN <<"/">> \o p ELSE p)))

\* maybeSafenPath without the "/" prefix hack for paths starting with "..".
maybeSafenPath_noRootHack(p) ==
    IF a.UnsafePaths THEN p ELSE DotIfEmpty(TrimLeftSlash(Clean(p)))

\* maybeSafenPath safens the /-path p if a.UnsafePaths isn't set: the hack
\* to remove leading ../'s (a "/" before a path that starts with ".."),
\* Clean, no leading "/", and "." for what is then empty.
maybeSafenPath(p) ==
    IF a.UnsafePaths THEN p
    ELSE DotIfEmpty(TrimLeftSlash(Clean(
             IF HasPrefix(p, <<".", ".">>) THEN <<"/">> \o p ELSE p)))

ToHostPath(p) == FromSlash(maybeSafenPath(p))

FromHostPath(p) == maybeSafenPath(ToSlash(p))

-----------------------------------------------------------------------------
(* path.Match, as the Go standard library computes it.  A result is        *)
(* [matched, err]; err stands for ErrBadPattern.                           *)

\* The model's characters in byte order, for the ranges of a character class.
ByteOrder ==
    <<"\n", " ", "*", "-", ".", "/", "?", "[", "\\", "]", "^",
      "a", "b", "c", "d", "f", "g", "m", "n", "o", "q", "w", "x", "y", "z">>

Ord(c) == CHOOSE i \in 1..Len(ByteOrder) : ByteOrder[i] = c

\* lo <= r && r <= hi; r = "" is the zero rune of a match that already failed.
InRange(lo, r, hi) == r # "" /\ Ord(lo) <= Ord(r) /\ Ord(r) <= Ord(hi)

BadPattern == [matched |-> FALSE, err |-> TRUE]

\* getEsc gets a possibly-escaped character from chunk, for a character class.
getEsc(chunk) ==
    IF chunk = <<>> \/ chunk[1] = "-" \/ chunk[1] = "]"
    THEN [r |-> "", chunk |-> <<>>, err |-> TRUE]
    ELSE LET c1 == IF chunk[1] = "\\" THEN Tail(chunk) ELSE chunk
         IN  IF c1 = <<>>
             THEN [r |-> "", chunk |-> <<>>, err |-> TRUE]
             ELSE [r |-> c1[1], chunk |-> Tail(c1), err |-> Tail(c1) = <<>>]

\* The ranges of a character class, up to its closing "]": the range that
\* starts with lo, which getEsc has read, and those after it.
RECURSIVE matchRanges(_, _, _, _)
matchRangeTo(lo, hi, r, match, nrange) ==
    IF hi.err THEN [chunk |-> <<>>, match |-> FALSE, err |-> TRUE]
    ELSE matchRanges(hi.chunk, r, match \/ InRange(lo.r, r, hi.r), nrange + 1)

matchRangeFrom(lo, r, match, nrange) ==
    IF lo.err THEN [chunk |-> <<>>, match |-> FALSE, err |-> TRUE]
    ELSE IF lo.chunk[1] = "-"
    THEN matchRangeTo(lo, getEsc(Tail(lo.chunk)), r, match, nrange)
    ELSE matchRanges(lo.chunk, r, match \/ InRange(lo.r, r, lo.r), nrange + 1)

matchRanges(chunk, r, match, nrange) ==
    IF chunk # <<>> /\ chunk[1] = "]" /\ nrange > 0
    THEN [chunk |-> Tail(chunk), match |-> match, err |-> FALSE]
    ELSE matchRangeFrom(getEsc(chunk), r, match, nrange)

\* matchChunk's loop.  After the match fails the loop goes on through chunk,
\* checking that the pattern is well-formed but no longer reading s.
RECURSIVE matchChunkLoop(_, _, _)

\* The loop's character class case, its ranges parsed as rg.
matchChunkClass(rg, negated, s1, failed) ==
    IF rg.err THEN [rest |-> <<>>, ok |-> FALSE, err |-> TRUE]
    ELSE matchChunkLoop(rg.chunk, s1, failed \/ (rg.match = negated))

\* One turn of the loop: chunk is not empty, s1 is s after this turn.
matchChunkStep(chunk, s, s1, failed) ==
    CASE chunk[1] = "[" ->
           IF Len(chunk) > 1 /\ chunk[2] = "^"
           THEN matchChunkClass(
                    matchRanges(Tail(Tail(chunk)),
                                IF failed THEN "" ELSE s[1], FALSE, 0),
                    TRUE, s1, failed)
           ELSE matchChunkClass(
                    matchRanges(Tail(chunk),
                                IF failed THEN "" ELSE s[1], FALSE, 0),
                    FALSE, s1, failed)
      [] chunk[1] = "?" ->
           matchChunkLoop(Tail(chunk), s1, failed \/ s[1] = "/")
      [] chunk[1] = "\\" ->
           IF Tail(chunk) = <<>>
           THEN [rest |-> <<>>, ok |-> FALSE, err |-> TRUE]
           ELSE matchChunkLoop(Tail(Tail(chunk)), s1,
                               failed \/ chunk[2] # s[1])
      [] OTHER ->
           matchChunkLoop(Tail(chunk), s1, failed \/ chunk[1] # s[1])

matchChunkLoop(chunk, s, failed) ==
    IF chunk = <<>>
    THEN IF failed THEN [rest |-> <<>>, ok |-> FALSE, err |-> FALSE]
         ELSE [rest |-> s, ok |-> TRUE, err |-> FALSE]
    ELSE IF failed \/ s = <<>>
    THEN matchChunkStep(chunk, s, s, TRUE)
    ELSE matchChunkStep(chunk, s, Tail(s), FALSE)

\* matchChunk checks whether chunk matches the beginning of s.
matchChunk(chunk, s) == matchChunkLoop(chunk, s, FALSE)

\* scanChunk's scan: the index (from 0) at which the chunk ends.
RECURSIVE scanChunkEnd(_, _, _)
scanChunkEnd(pattern, i, inrange) ==
    IF i >= Len(pattern) THEN i
    ELSE CASE pattern[i + 1] = "\\" ->
                scanChunkEnd(pattern,
                             IF i + 1 < Len(pattern) THEN i + 2 ELSE i + 1,
                             inrange)
           [] pattern[i + 1] = "[" -> scanChunkEnd(pattern, i + 1, TRUE)
           [] pattern[i + 1] = "]" -> scanChunkEnd(pattern, i + 1, FALSE)
           [] pattern[i + 1] = "*" /\ ~inrange -> i
           [] OTHER -> scanChunkEnd(pattern, i + 1, inrange)

RECURSIVE TrimLeftStar(_)
TrimLeftStar(s) ==
    IF s # <<>> /\ Head(s) = "*" THEN TrimLeftStar(Tail(s)) ELSE s

\* scanChunk, given the pattern after its leading stars and where its chunk
\* ends.
scanChunkAt(star, p1, i) ==
    [star  |-> star,
     chunk |-> SubSeq(p1, 1, i),
     rest  |-> SubSeq(p1, i + 1, Len(p1))]

\* scanChunk gets the next segment of pattern: a non-star string possibly
\* preceded by stars.
scanChunk(pattern) ==
    IF pattern # <<>> /\ pattern[1] = "*"
    THEN scanChunkAt(TRUE, TrimLeftStar(pattern),
                     scanChunkEnd(TrimLeftStar(pattern), 0, FALSE))
    ELSE scanChunkAt(FALSE, pattern, scanChunkEnd(pattern, 0, FALSE))

HasSlash(s) == \E i \in 1..Len(s) : s[i] = "/"

\* Match's loop after a star: look for a match skipping i+1 bytes; a star
\* cannot skip "/".
RECURSIVE StarSkip(_, _, _, _)

\* m is what matchChunk found after skipping i+1 bytes.
StarSkipTried(m, chunk, rest, name, i) ==
    IF m.ok /\ ~(rest = <<>> /\ m.rest # <<>>)
    THEN [found |-> TRUE, rest |-> m.rest, err |-> FALSE]
    ELSE IF ~m.ok /\ m.err
    THEN [found |-> FALSE, rest |-> <<>>, err |-> TRUE]
    ELSE StarSkip(chunk, rest, name, i + 1)

StarSkip(chunk, rest, name, i) ==
    IF ~(i < Len(name) /\ name[i + 1] # "/")
    THEN [found |-> FALSE, rest |-> <<>>, err |-> FALSE]
    ELSE StarSkipTried(matchChunk(chunk, SubSeq(name, i + 2, Len(name))),
                       chunk, rest, name, i)

\* Before returning false with no error, Match checks that the remainder of
\* the pattern is syntactically valid.
RECURSIVE RestValid(_)
RestValidFrom(sc) == ~matchChunk(sc.chunk, <<>>).err /\ RestValid(sc.rest)

RestValid(pattern) ==
    IF pattern = <<>> THEN TRUE ELSE RestValidFrom(scanChunk(pattern))

RECURSIVE Match(_, _)

\* Match, after its look for a match past the star found st.
MatchStarred(sc, st) ==
    IF st.found THEN Match(sc.rest, st.rest)
    ELSE IF st.err THEN BadPattern
    ELSE IF RestValid(sc.rest) THEN [matched |-> FALSE, err |-> FALSE]
    ELSE BadPattern

\* Match, after its look for a match at the current position found m.
MatchTried(sc, name, m) ==
    IF m.ok /\ (m.rest = <<>> \/ sc.rest # <<>>) THEN Match(sc.rest, m.rest)
    ELSE IF m.err THEN BadPattern
    ELSE IF sc.star
    THEN MatchStarred(sc, StarSkip(sc.chunk, sc.rest, name, 0))
    ELSE MatchStarred(sc, [found |-> FALSE, rest |-> <<>>, err |-> FALSE])

\* Match, for the next chunk sc of the pattern.
MatchChunk(sc, name) ==
    IF sc.star /\ sc.chunk = <<>>
    THEN \* Trailing * matches rest of string unless it has a /.
         [matched |-> ~HasSlash(name), err |-> FALSE]
    ELSE MatchTried(sc, name, matchChunk(sc.chunk, name))

Match(pattern, name) ==
    IF pattern = <<>> THEN [matched |-> name = <<>>, err |-> FALSE]
    ELSE MatchChunk(scanChunk(pattern), name)

\* regexp.Regexp.MatchString for the regexes of the model, which are literal
\* strings: an unanchored search for the literal in s.
MatchString(re, s) ==
    \E i \in 0..(Len(s) - Len(re)) : SubSeq(s, i + 1, i + Len(re)) = re

-----------------------------------------------------------------------------
(* The txtar wire format (golang.org/x/tools/txtar), as Create and         *)
(* ListOrExtract use it.  An archive is [Comment, Files], a file           *)
(* [Name, Data].                                                           *)

RECURSIVE Concat(_)
Concat(ss) == IF ss = <<>> THEN <<>> ELSE Head(ss) \o Concat(Tail(ss))

\* The index (from 0) of the first occurrence of sub in s, or -1.
Index(s, sub) ==
    LET at == {i \in 0..(Len(s) - Len(sub)) :
                  SubSeq(s, i + 1, i + Len(sub)) = sub}
    IN  IF at = {} THEN -1 ELSE CHOOSE i \in at : \A j \in at : i <= j

\* strings.TrimSpace, over the model's white space.
RECURSIVE TrimSpace(_)
TrimSpace(s) ==
    IF s # <<>> /\ s[1] \in {" ", "\n", "\t", "\r"} THEN TrimSpace(Tail(s))
    ELSE IF s # <<>> /\ s[Len(s)] \in {" ", "\n", "\t", "\r"}
    THEN TrimSpace(SubSeq(s, 1, Len(s) - 1))
    ELSE s

\* fixNL that adds nothing.
fixNL_asIs(data) == data

\* If data is empty or ends in \n, fixNL returns data.  Otherwise fixNL
\* returns data with a final \n added.
fixNL(data) ==
    IF data = <<>> \/ data[Len(data)] = "\n" THEN data
    ELSE Append(data, "\n")

MarkerStart == <<"-", "-", " ">>
MarkerEnd == <<" ", "-", "-">>

\* "-- name --\n"
MarkerLine(name) == MarkerStart \o name \o MarkerEnd \o <<"\n">>

\* Format returns the serialized form of an Archive.
Format(archive) ==
    fixNL(archive.Comment)
    \o Concat([i \in 1..Len(archive.Files) |->
                 MarkerLine(archive.Files[i].Name)
                 \o fixNL(archive.Files[i].Data)])

\* isMarker, for data that starts with "-- ": line is its first line,
\* after the data after that line.
isMarkerLine(line, after) ==
    IF ~(HasSuffix(line, MarkerEnd)
         /\ Len(line) >= Len(MarkerStart) + Len(MarkerEnd))
    THEN [name |-> <<>>, after |-> <<>>]
    ELSE [name  |-> TrimSpace(SubSeq(line, Len(MarkerStart) + 1,
                                     Len(line) - Len(MarkerEnd))),
          after |-> after]

\* isMarker, with i the index of data's first \n, or -1.
isMarkerAt(data, i) ==
    IF i >= 0
    THEN isMarkerLine(SubSeq(data, 1, i), SubSeq(data, i + 2, Len(data)))
    ELSE isMarkerLine(data, <<>>)

\* isMarker checks whether data begins with a file marker line.  If so, it
\* returns the name from the line and the data after the line; otherwise
\* the name is empty.
isMarker(data) ==
    IF ~HasPrefix(data, MarkerStart) THEN [name |-> <<>>, after |-> <<>>]
    ELSE isMarkerAt(data, Index(data, <<"\n">>))

\* findFileMarker finds the next file marker in data, and returns the data
\* before the marker, the file name, and the data after the marker.  If
\* there is no next marker it returns before = fixNL(data), name = "".
RECURSIVE findFileMarkerFrom(_, _)

\* No marker at i: on to the next "\n-- ", which is j after i, if any.
findFileMarkerNext(data, i, j) ==
    IF j < 0 THEN [before |-> fixNL(data), name |-> <<>>, after |-> <<>>]
    ELSE findFileMarkerFrom(data, i + j + 1)

\* m is what isMarker found at i.
findFileMarkerAt(data, i, m) ==
    IF m.name # <<>>
    THEN [before |-> SubSeq(data, 1, i), name |-> m.name, after |-> m.after]
    ELSE findFileMarkerNext(data, i,
             Index(SubSeq(data, i + 1, Len(data)), <<"\n">> \o MarkerStart))

findFileMarkerFrom(data, i) ==
    findFileMarkerAt(data, i, isMarker(SubSeq(data, i + 1, Len(data))))

findFileMarker(data) == findFileMarkerFrom(data, 0)

\* Parse's loop: the files from the marker named name on.
RECURSIVE ParseFiles(_, _)
ParseFile(name, m) ==
    <<[Name |-> name, Data |-> m.before]>> \o ParseFiles(m.name, m.after)

ParseFiles(name, data) ==
    IF name = <<>> THEN <<>> ELSE ParseFile(name, findFileMarker(data))

\* Parse, with m what findFileMarker found first.
ParseFrom(m) == [Comment |-> m.before, Files |-> ParseFiles(m.name, m.after)]

\* Parse parses the serialized form of an Archive.
Parse(data) == ParseFrom(findFileMarker(data))

\* dropCR drops a terminal \r from the data.
dropCR(data) ==
    IF HasSuffix(data, <<"\r">>) THEN SubSeq(data, 1, Len(data) - 1) ELSE data

\* bufio.Scanner's lines of s: split at \n, a final \r dropped from each,
\* no line for a final empty rest.
RECURSIVE ScanLines(_)
ScanLinesAt(s, i) ==
    IF i < 0 THEN <<dropCR(s)>>
    ELSE <<dropCR(SubSeq(s, 1, i))>> \o ScanLines(SubSeq(s, i + 2, Len(s)))

ScanLines(s) == IF s = <<>> THEN <<>> ELSE ScanLinesAt(s, Index(s, <<"\n">>))

\* A line that starts with "-- " and ends with " --" is among lines.
AnyMarkerLine(lines) ==
    \E i \in 1..Len(lines) :
        HasPrefix(lines[i], MarkerStart) /\ HasSuffix(lines[i], MarkerEnd)

\* hasMarkerLine returns true if s has a txtar marker line.
hasMarkerLine(s) == AnyMarkerLine(ScanLines(s))

-----------------------------------------------------------------------------
(* compress/gzip, as a framing: a header, the payload, a trailer (checksum *)
(* and length).  A stream cut short has lost its trailer.                  *)

GzipHeader == "gzip-header"
GzipTrailer == "gzip-trailer"

\* What gzip.Writer has written once closed.
Gzip(b) == <<GzipHeader>> \o b \o <<GzipTrailer>>

\* gzip.NewReader followed by io.ReadAll.
Gunzip(z) ==
    IF z = <<>> \/ z[1] # GzipHeader
    THEN [err |-> "initializing gunzipper", b |-> <<>>]
    ELSE IF z[Len(z)] # GzipTrailer
    THEN [err |-> "gunzipping", b |-> <<>>]
    ELSE [err |-> "", b |-> SubSeq(z, 2, Len(z) - 1)]

-----------------------------------------------------------------------------
(* The Archiver (archiver.go:29-70) *)

\* New returns a new Archiver, ready for use.
New(comment, filename, withGzip, paths, unsafePaths, verbose, excludeGlobs, excludeREs) ==
    [Comment      |-> comment,
     Filename     |-> filename,
     WithGzip     |-> withGzip,
     Paths        |-> paths,
     UnsafePaths  |-> unsafePaths,
     Verbose      |-> verbose,
     ExcludeGlobs |-> excludeGlobs,
     ExcludeREs   |-> excludeREs]

-----------------------------------------------------------------------------
(* The exclusion matcher (archiver.go:83-100).  A result is [excl, err].   *)

\* isExcluded's first loop: the first glob that matches or is malformed
\* decides.
RECURSIVE isExcludedByGlob(_, _)

\* isExcludedByGlobTried with path.Match's error dropped: a glob that does
\* not match, malformed or not, hands over to the next one.
isExcludedByGlobTried_errIgnored(m, globs, fpath) ==
    IF m.matched THEN [excl |-> TRUE, err |-> FALSE]
    ELSE isExcludedByGlob(Tail(globs), fpath)

\* m is what path.Match found for the first of globs.
isExcludedByGlobTried(m, globs, fpath) ==
    IF m.err THEN [excl |-> FALSE, err |-> TRUE]
    ELSE IF m.matched THEN [excl |-> TRUE, err |-> FALSE]
    ELSE isExcludedByGlob(Tail(globs), fpath)

isExcludedByGlob(globs, fpath) ==
    IF globs = <<>> THEN [excl |-> FALSE, err |-> FALSE]
    ELSE isExcludedByGlobTried(Match(Head(globs), fpath), globs, fpath)

\* isExcludedByRE without its loop over the regexes.
isExcludedByRE_ignored(g, res, fpath) == g

\* isExcluded's second loop, after the first one found g.
isExcludedByRE(g, res, fpath) ==
    IF g.err \/ g.excl THEN g
    ELSE [excl |-> \E i \in 1..Len(res) : MatchString(res[i], fpath),
          err  |-> FALSE]

\* isExcluded returns true if any of a's exclude globs or regexes matches
\* fpath.
isExcluded(fpath) ==
    isExcludedByRE(isExcludedByGlob(a.ExcludeGlobs, fpath), a.ExcludeREs,
                   fpath)

-----------------------------------------------------------------------------
(* The host's files, as Create finds them from its working directory:      *)
(*     a        "x"  (no final newline)                                    *)
(*     d/f      "y\n"                                                      *)
(*     d/g      "-- z --\nq\n"  (a line shaped like a marker)              *)
(*     ../a     "w\n"                                                      *)
(* and no file named n.                                                    *)

HostFiles ==
    (<<"a">> :> <<"x">>)
    @@ (<<"d", "/", "f">> :> <<"y", "\n">>)
    @@ (<<"d", "/", "g">> :>
            <<"-", "-", " ", "z", " ", "-", "-", "\n", "q", "\n">>)
    @@ (<<".", ".", "/", "a">> :> <<"w", "\n">>)

\* Each directory's entries, sorted by name as os.ReadDir returns them.
HostDirs ==
    (<<".">> :> << <<"a">>, <<"d">> >>)
    @@ (<<"d">> :> << <<"f">>, <<"g">> >>)

\* os.Lstat, as far as the walk reads it: the type of the file at path,
\* "" when there is none.
Lstat(path) ==
    IF Clean(path) \in DOMAIN HostFiles THEN "file"
    ELSE IF Clean(path) \in DOMAIN HostDirs THEN "dir"
    ELSE ""

\* filepath.Join(dir, name) on a "/" host.
Join(dir, name) == Clean(dir \o <<"/">> \o name)

\* One call WalkDir makes of the walk function: fn(path, d, err).
WalkCall(path, d, failed) == [path |-> path, d |-> d, err |-> failed]

\* filepath.walkDir, for a walk function that returns only nil or an error
\* (never SkipDir): the calls it makes while every call returns nil.  A
\* directory that cannot be listed gets a second call, with the error.
RECURSIVE walkDir(_, _)
RECURSIVE walkEntries(_, _)
walkDir(path, d) ==
    <<WalkCall(path, d, FALSE)>>
    \o IF d # "dir" THEN <<>>
       ELSE IF Clean(path) \in unreadable THEN <<WalkCall(path, d, TRUE)>>
       ELSE walkEntries(path, HostDirs[Clean(path)])

walkEntries(path, names) ==
    IF names = <<>> THEN <<>>
    ELSE walkDir(Join(path, Head(names)), Lstat(Join(path, Head(names))))
         \o walkEntries(path, Tail(names))

\* filepath.WalkDir: a root that Lstat cannot find gets one call, with the
\* error and no DirEntry.
WalkDir(path) ==
    IF Lstat(path) = "" THEN <<WalkCall(path, "", TRUE)>>
    ELSE walkDir(path, Lstat(path))

-----------------------------------------------------------------------------
(* Create (archiver_test.go:230-335, create.go) *)

\* slices.DeleteFunc(ta.Files, func(f) { return f.Name == path })
DeleteFunc(files, name) == SelectSeq(files, LAMBDA f : f.Name # name)

\* addFile without the removal of previous files with the same name.
addFile_noDelete(files, name, b) == Append(files, [Name |-> name, Data |-> b])

\* addFile that puts the new data where the name's first file is, if any.
addFile_inPlace(files, name, b) ==
    IF \E i \in 1..Len(files) : files[i].Name = name
    THEN [i \in 1..Len(files) |->
             IF files[i].Name = name THEN [Name |-> name, Data |-> b]
             ELSE files[i]]
    ELSE Append(files, [Name |-> name, Data |-> b])

\* The walk function's last step: add the file, removing any previous ones
\* with the same name first.
addFile(files, name, b) ==
    Append(DeleteFunc(files, name), [Name |-> name, Data |-> b])

\* The walk function's result: what it returns ("nil" or the message of its
\* error), the files after it, what it did, and the name it added, if any.
wdfResult(ret, files, did, name) ==
    [ret |-> ret, files |-> files, did |-> did, name |-> name]

\* The walk function from "Add this file" on: the file read as b is added
\* under its txtar name.
wdfAdd(files, name, b) ==
    wdfResult("nil", addFile(files, name, b),
              IF \E i \in 1..Len(files) : files[i].Name = name
              THEN "replaced" ELSE "added",
              name)

\* The walk function once isExcluded has returned excl; file is the host
\* file that c.path names.
wdfChecked(c, files, excl, file) ==
    \* If we're skipping this path, do so before examining the error.
    IF excl.err THEN wdfResult("checking if excluded", files, "failed", <<>>)
    ELSE IF excl.excl THEN wdfResult("nil", files, "excluded", <<>>)
    \* If we couldn't read whatever this is, it's a problem.
    ELSE IF c.err THEN wdfResult("access", files, "failed", <<>>)
    \* Don't really care about non-regular files.
    ELSE IF c.d # "file" THEN wdfResult("nil", files, "skipped", <<>>)
    ELSE IF file \in unreadable
    THEN wdfResult("reading", files, "failed", <<>>)
    ELSE wdfAdd(files, FromHostPath(c.path), HostFiles[file])

\* The walk function of addToArchive, called with c on the files so far.
wdf(c, files) == wdfChecked(c, files, isExcluded(c.path), Clean(c.path))

\* The last call of the walk function: the path it was called with, what it
\* returned, what it did and the name it added, if any.
NoVisit == [path |-> <<>>, ret |-> "", did |-> "", name |-> <<>>]

CreateIdle ==
    /\ ta = [Comment |-> <<>>, Files |-> <<>>]
    /\ root = 0
    /\ pending = <<>>
    /\ visit = NoVisit
    /\ stderr = <<>>
    /\ opened = FALSE
    /\ sinkio = ""
    /\ written = <<>>

\* Create up to its loop over a.Paths.
CreateBegin ==
    /\ verb = "c"
    /\ pc = "begin"
    /\ ta' = [Comment |-> a.Comment, Files |-> <<>>]
    /\ IF a.Paths = <<>>
       THEN /\ pc' = "open"
            /\ UNCHANGED <<root, pending>>
       ELSE /\ pc' = "walk"
            /\ root' = 1
            /\ pending' = WalkDir(a.Paths[1])
    /\ UNCHANGED <<a, Separator, pathVars, mainVars, verb, err, unreadable, disk, stdio,
                   visit, stderr, opened, written, sinkio, listVars>>

\* Where the walk goes once the walk function has returned r for c: an
\* error ends the walk and Create, which returns it wrapped in "adding";
\* after the last call for a path the loop goes on to the next path, and
\* after the last path Create goes on to open its sink.
WalkReturned(c, r) ==
    /\ visit' = [path |-> c.path, ret |-> r.ret, did |-> r.did,
                 name |-> r.name]
    /\ ta' = [ta EXCEPT !.Files = r.files]
    /\ stderr' = IF r.did \in {"added", "replaced"} /\ a.Verbose
                 THEN Append(stderr, r.name) ELSE stderr
    /\ IF r.ret # "nil"
       THEN /\ err' = "adding"
            /\ pc' = "done"
            /\ UNCHANGED <<root, pending>>
       ELSE /\ err' = err
            /\ IF Tail(pending) # <<>>
               THEN /\ pending' = Tail(pending)
                    /\ UNCHANGED <<root, pc>>
               ELSE IF root < Len(a.Paths)
               THEN /\ root' = root + 1
                    /\ pending' = WalkDir(a.Paths[root + 1])
                    /\ pc' = pc
               ELSE /\ pending' = <<>>
                    /\ root' = root
                    /\ pc' = "open"

\* One call of the walk function, for the next call WalkDir makes.
Walk ==
    /\ pc = "walk"
    /\ WalkReturned(Head(pending), wdf(Head(pending), ta.Files))
    /\ UNCHANGED <<a, Separator, pathVars, mainVars, verb, unreadable, disk, stdio,
                   opened, written, sinkio, listVars>>

\* OpenSink whose file is emptied even when it cannot be opened.
OpenSink_truncatesFirst ==
    /\ pc = "open"
    /\ IF a.Filename = <<>>
       THEN /\ pc' = "write"
            /\ UNCHANGED <<err, disk, opened, sinkio>>
       ELSE \E ok \in BOOLEAN :
              IF ok
              THEN /\ pc' = "write"
                   /\ disk' = <<>>
                   /\ opened' = TRUE
                   /\ sinkio' = sinkio
                   /\ err' = err
              ELSE /\ pc' = "done"
                   /\ err' = "creating archive file"
                   /\ sinkio' = "open"
                   /\ disk' = <<>>
                   /\ opened' = opened
    /\ UNCHANGED <<a, Separator, pathVars, mainVars, verb, unreadable, stdio, ta, root,
                   pending, visit, stderr, written, listVars>>

\* Work out how to write this thing: standard output, or the file named
\* a.Filename, which os.OpenFile creates or truncates, or fails to.
OpenSink ==
    /\ pc = "open"
    /\ IF a.Filename = <<>>
       THEN /\ pc' = "write"
            /\ UNCHANGED <<err, disk, opened, sinkio>>
       ELSE \E ok \in BOOLEAN :
              IF ok
              THEN /\ pc' = "write"
                   /\ disk' = <<>>
                   /\ opened' = TRUE
                   /\ sinkio' = sinkio
                   /\ err' = err
              ELSE /\ pc' = "done"
                   /\ err' = "creating archive file"
                   /\ sinkio' = "open"
                   /\ UNCHANGED <<disk, opened>>
    /\ UNCHANGED <<a, Separator, pathVars, mainVars, verb, unreadable, stdio, ta, root,
                   pending, visit, stderr, written, listVars>>

\* What a sink holds after a write that failed part way.
PartialWrites(b) == {SubSeq(b, 1, n) : n \in {0, Len(b) \div 2}}

\* The write of b, which the sink receives as full, and the deferred
\* closes.
\*   "ok"     everything reached the sink;
\*   "write"  Write failed and Create returns its error;
\*   "close"  Write returned nil, and the bytes were lost when the
\*            gzip.Writer flushed them or the file was closed.  A
\*            gzip.Writer's Write has by then put its header in the sink.
WriteBytes(b, full) ==
    \E how \in {"ok", "write", "close"} :
    \E sunk \in IF how = "ok" THEN {full} ELSE PartialWrites(full) :
        /\ (how = "close" /\ a.WithGzip) => sunk # <<>>
        /\ sinkio' = how
        /\ err' = IF how = "write" THEN "writing archive" ELSE "nil"
        /\ written' = IF how = "write" THEN <<>> ELSE b
        /\ IF a.Filename = <<>>
           THEN stdio' = sunk /\ disk' = disk
           ELSE disk' = sunk /\ stdio' = stdio

\* Framed that compresses what it has compressed.
Framed_gzipTwice(b) == IF a.WithGzip THEN Gzip(Gzip(b)) ELSE b

\* What the sink receives for b: b, gzipped if a.WithGzip.
Framed(b) == IF a.WithGzip THEN Gzip(b) ELSE b

\* Finally, write out the archive: the one Write of txtar.Format(ta), through
\* a gzip.Writer if a.WithGzip, then the deferred Close of the gzip.Writer
\* and of the file, whose errors are dropped.
WriteArchive ==
    /\ pc = "write"
    /\ pc' = "done"
    /\ WriteBytes(Format(ta), Framed(Format(ta)))
    /\ UNCHANGED <<a, Separator, pathVars, mainVars, verb, unreadable, ta, root,
                   pending, visit, stderr, opened, listVars>>

-----------------------------------------------------------------------------
(* ListOrExtract (create_test.go:144-276, listextract.go) *)

\* What extraction has made: no directories, no files.
NoTree == [dirs |-> {}, files |-> <<>>]

ListIdle ==
    /\ ar = [Comment |-> <<>>, Files |-> <<>>]
    /\ fi = 0
    /\ w = <<>>
    /\ tree = NoTree

\* fmt's %d of a natural number.
Digits == <<"0", "1", "2", "3", "4", "5", "6", "7", "8", "9">>

RECURSIVE Decimal(_)
Decimal(n) ==
    IF n < 10 THEN <<Digits[n + 1]>>
    ELSE Decimal(n \div 10) \o <<Digits[(n % 10) + 1]>>

\* What ListOrExtract prints of the comment when verbose.
NoComment ==
    <<"-", "N", "o", " ", "C", "o", "m", "m", "e", "n", "t", "-", "\n", "\n">>

CommentText(comment) ==
    IF comment = <<>> THEN NoComment ELSE comment \o <<"\n">>

\* ListOrExtract ends, returning e, before its loop over the files.
LoadFailed(e) ==
    /\ err' = e
    /\ pc' = "done"
    /\ UNCHANGED <<ar, fi, w>>

\* ListOrExtract from "Print the comment, if we're verbose" to its loop, with
\* p the parsed archive.
Parsed(p) ==
    /\ ar' = p
    /\ \E printed \in BOOLEAN :
         IF a.Verbose /\ ~printed
         THEN /\ err' = "printing comment"
              /\ pc' = "done"
              /\ UNCHANGED <<fi, w>>
         ELSE /\ w' = IF a.Verbose THEN w \o CommentText(p.Comment) ELSE w
              /\ IF p.Files = <<>>
                 THEN err' = "nil" /\ pc' = "done" /\ fi' = fi
                 ELSE err' = err /\ pc' = "files" /\ fi' = 1

\* ListOrExtract from "Decompress, if we're doing that", with b the bytes
\* read.
Slurped(b) == IF a.WithGzip THEN Gunzip(b) ELSE [err |-> "", b |-> b]

\* ListOrExtract once the bytes are decompressed, or not, as z.
Decompressed(z) == IF z.err # "" THEN LoadFailed(z.err) ELSE Parsed(Parse(z.b))

\* ListOrExtract up to its loop over the archive's files: slurp file or
\* stdin, decompress, parse, print the comment.
Load ==
    /\ verb \in {"t", "x"}
    /\ pc = "begin"
    /\ \E read \in BOOLEAN :
         IF ~read THEN LoadFailed("reading")
         ELSE Decompressed(Slurped(IF a.Filename = <<>> THEN stdio ELSE disk))
    /\ UNCHANGED <<a, Separator, pathVars, mainVars, verb, unreadable, disk, stdio,
                   createVars, tree>>

\* extractFromArchive's loop over a.Paths: the first glob that matches hn or
\* is malformed decides.
RECURSIVE matchPaths(_, _)

\* m is what filepath.Match found for the first of globs.
matchPathsTried(m, globs, hn) ==
    IF m.err THEN [found |-> FALSE, err |-> TRUE]
    ELSE IF m.matched THEN [found |-> TRUE, err |-> FALSE]
    ELSE matchPaths(Tail(globs), hn)

\* matchPaths that tries the first glob only.
matchPaths_firstOnly(globs, hn) ==
    IF globs = <<>> THEN [found |-> FALSE, err |-> FALSE]
    ELSE [found |-> Match(Head(globs), hn).matched,
          err   |-> Match(Head(globs), hn).err]

matchPaths(globs, hn) ==
    IF globs = <<>> THEN [found |-> FALSE, err |-> FALSE]
    ELSE matchPathsTried(Match(Head(globs), hn), globs, hn)

\* The index of the last "/" of p, 0 if it has none.
RECURSIVE LastSlash(_)
LastSlash(p) ==
    IF p = <<>> THEN 0
    ELSE IF p[Len(p)] = "/" THEN Len(p)
    ELSE LastSlash(SubSeq(p, 1, Len(p) - 1))

\* filepath.Dir on a "/" host.
Dir(p) == Clean(SubSeq(p, 1, LastSlash(p)))

\* The directories os.MkdirAll(dn) makes sure exist: dn and those above it.
RECURSIVE MkdirAll(_)
MkdirAll(dn) ==
    IF dn \in {<<".">>, <<"/">>} THEN {dn}
    ELSE IF Dir(dn) = dn THEN {dn}
    ELSE {dn} \cup MkdirAll(Dir(dn))

\* FileInfo that never prints the size.
FileInfo_nameOnly(f, hn) == hn \o <<"\n">>

\* The line extractFromArchive prints for f, named hn on the host: filename
\* and size when listing verbosely, else the filename.
FileInfo(f, hn) ==
    IF a.Verbose /\ verb = "t"
    THEN Decimal(Len(f.Data)) \o <<"\t">> \o hn \o <<"\n">>
    ELSE hn \o <<"\n">>

\* extractFromArchive returns ret for f, and ListOrExtract's loop goes on,
\* or ends with the error wrapped in "processing", or after the last file.
Returned(f, hn, ret, did) ==
    /\ visit' = [path |-> hn, ret |-> ret, did |-> did, name |-> f.Name]
    /\ IF ret # "nil"
       THEN err' = "processing" /\ pc' = "done" /\ fi' = fi
       ELSE IF fi = Len(ar.Files)
       THEN err' = "nil" /\ pc' = "done" /\ fi' = fi
       ELSE err' = err /\ pc' = pc /\ fi' = fi + 1

\* extractFromArchive from "Work out what to print, if anything".
PrintInfo(f, hn, did) ==
    IF ~a.Verbose /\ verb = "x"
    THEN w' = w /\ Returned(f, hn, "nil", did)
    ELSE \E printed \in BOOLEAN :
           IF printed
           THEN w' = w \o FileInfo(f, hn) /\ Returned(f, hn, "nil", did)
           ELSE w' = w /\ Returned(f, hn, "writing file info", "failed")

\* extractFromArchive's "If we're extracting, do it", for the file fn.
\*   "mkdir"  os.MkdirAll failed;
\*   "open"   os.WriteFile could not create the file;
\*   "write"  os.WriteFile created the file and failed to write all of it.
Extract(f, hn, fn) ==
    \E how \in {"ok", "mkdir", "open", "write"} :
        IF how = "mkdir"
        THEN /\ UNCHANGED <<tree, w>>
             /\ Returned(f, hn, "creating directory", "failed")
        ELSE IF how = "open"
        THEN /\ tree' = [tree EXCEPT !.dirs = @ \cup MkdirAll(Dir(fn))]
             /\ w' = w
             /\ Returned(f, hn, "writing", "failed")
        ELSE IF how = "write"
        THEN /\ \E part \in PartialWrites(f.Data) :
                  tree' = [dirs  |-> tree.dirs \cup MkdirAll(Dir(fn)),
                           files |-> (fn :> part) @@ tree.files]
             /\ w' = w
             /\ Returned(f, hn, "writing", "failed")
        ELSE /\ tree' = [dirs  |-> tree.dirs \cup MkdirAll(Dir(fn)),
                         files |-> (fn :> f.Data) @@ tree.files]
             /\ PrintInfo(f, hn, "extracted")

\* extractFromArchive once isExcluded has returned excl for hn and the loop
\* over a.Paths has found sel.
ExtractChecked(f, hn, excl, sel) ==
    \* Skip excluded files and files not on our list, if we have one.
    IF excl.err
    THEN /\ UNCHANGED <<w, tree>>
         /\ Returned(f, hn, "checking if excluded", "failed")
    ELSE IF excl.excl
    THEN /\ UNCHANGED <<w, tree>>
         /\ Returned(f, hn, "nil", "excluded")
    ELSE IF sel.err
    THEN /\ UNCHANGED <<w, tree>>
         /\ Returned(f, hn, "invalid glob", "failed")
    ELSE IF a.Paths # <<>> /\ ~sel.found
    THEN /\ UNCHANGED <<w, tree>>
         /\ Returned(f, hn, "nil", "unlisted")
    ELSE IF verb = "x"
    THEN Extract(f, hn, Clean(hn))
    ELSE /\ tree' = tree
         /\ PrintInfo(f, hn, "listed")

\* extractFromArchive for f, which it calls hn locally.
extractFromArchive(f, hn) ==
    ExtractChecked(f, hn, isExcluded(hn), matchPaths(a.Paths, hn))

\* One turn of ListOrExtract's loop: print and/or extract the next file.
ExtractFromArchive ==
    /\ verb \in {"t", "x"}
    /\ pc = "files"
    /\ extractFromArchive(ar.Files[fi], ToHostPath(ar.Files[fi].Name))
    /\ UNCHANGED <<a, Separator, pathVars, mainVars, verb, unreadable, disk, stdio, ta,
                   root, pending, stderr, opened, written, sinkio, ar>>

-----------------------------------------------------------------------------
(* AddPathsFromFile (archiver.go:102-138) and main (listextract_test.go:    *)
(* 201-359, mqtxtar.go)                                                    *)

MainIdle ==
    /\ flags = [c |-> FALSE, x |-> FALSE, t |-> FALSE, C |-> FALSE,
                I |-> FALSE]
    /\ listFile = <<>>
    /\ effects = <<>>

\* AddPathsFromFile's loop over the file's lines: each line is trimmed,
\* blanks are ignored, dupes aren't added.
RECURSIVE AddLines(_, _)

\* AddLine that adds dupes.
AddLine_dupes(paths, l, rest) ==
    IF l = <<>> THEN AddLines(paths, rest)
    ELSE AddLines(Append(paths, l), rest)

\* The loop's body for the trimmed line l, with rest the lines after it.
AddLine(paths, l, rest) ==
    IF l = <<>> \/ \E i \in 1..Len(paths) : paths[i] = l
    THEN AddLines(paths, rest)
    ELSE AddLines(Append(paths, l), rest)

AddLines(paths, lines) ==
    IF lines = <<>> THEN paths
    ELSE AddLine(paths, TrimSpace(Head(lines)), Tail(lines))

\* AddPathsFromFile on a file that holds the bytes b.
\*   "open"  os.Open failed: no path is added;
\*   "read"  the scanner failed after n of the file's lines were added.
AddPathsFromFile(b) ==
    \E how \in {"ok", "open", "read"} :
        IF how = "open"
        THEN a' = a /\ err' = "opening"
        ELSE IF how = "read"
        THEN /\ \E n \in 0..Len(ScanLines(b)) :
                  a' = [a EXCEPT !.Paths =
                           AddLines(a.Paths, SubSeq(ScanLines(b), 1, n))]
             /\ err' = "reading lines"
        ELSE /\ a' = [a EXCEPT !.Paths = AddLines(a.Paths, ScanLines(b))]
             /\ err' = err

\* main: "If we have a directory to be in, do that first like we said we
\* would."
MainChdir ==
    /\ pc = "main"
    /\ IF flags.C
       THEN \E ok \in BOOLEAN :
              IF ok
              THEN /\ effects' = Append(effects, "chdir")
                   /\ pc' = "paths"
                   /\ err' = err
              ELSE /\ effects' = effects
                   /\ pc' = "fatal"
                   /\ err' = "Cannot chdir"
       ELSE /\ pc' = "paths"
            /\ UNCHANGED <<effects, err>>
    /\ UNCHANGED <<a, Separator, pathVars, flags, listFile, verb, unreadable,
                   disk, stdio, createVars, listVars>>

\* main: "Roll the archiver with options", and add the paths of the -I file
\* if there is one.
MainAddPaths ==
    /\ pc = "paths"
    /\ IF flags.I
       THEN /\ AddPathsFromFile(listFile)
            /\ effects' = Append(effects, "read list")
            /\ pc' = IF err' = err THEN "verbs" ELSE "fatal"
       ELSE /\ pc' = "verbs"
            /\ UNCHANGED <<a, effects, err>>
    /\ UNCHANGED <<Separator, pathVars, flags, listFile, verb, unreadable,
                   disk, stdio, createVars, listVars>>

\* The actions among -c, -x and -t that are set.
Actions == {v \in {"c", "x", "t"} : flags[v]}

\* MainDispatch that is content with more than one action.
MainDispatch_anyAction ==
    /\ pc = "verbs"
    /\ IF Cardinality(Actions) = 0
       THEN /\ pc' = "fatal"
            /\ err' = "Need exactly one of -c, -t, or -x"
            /\ UNCHANGED <<verb, effects>>
       ELSE /\ pc' = "done"
            /\ verb' = IF flags.c THEN "c" ELSE IF flags.x THEN "x" ELSE "t"
            /\ effects' = Append(effects, verb')
            /\ err' = err
    /\ UNCHANGED <<a, Separator, pathVars, flags, listFile, unreadable, disk,
                   stdio, createVars, listVars>>

\* main: "Make sure we only have one action" and "Figure out what to do":
\* the call of Create or of ListOrExtract, which Spec describes.
MainDispatch ==
    /\ pc = "verbs"
    /\ IF Cardinality(Actions) # 1
       THEN /\ pc' = "fatal"
            /\ err' = "Need exactly one of -c, -t, or -x"
            /\ UNCHANGED <<verb, effects>>
       ELSE /\ pc' = "done"
            /\ verb' = IF flags.c THEN "c" ELSE IF flags.x THEN "x" ELSE "t"
            /\ effects' = Append(effects, verb')
            /\ err' = err
    /\ UNCHANGED <<a, Separator, pathVars, flags, listFile, unreadable, disk,
                   stdio, createVars, listVars>>

\* The longest -I file.
MaxFileLen == 4

FileChars == {"a", "b", " ", "\n"}

\* The paths given as arguments: none, one, one given twice, two.
ArgPaths ==
    {<<>>, << <<"a">> >>, << <<"b">>, <<"b">> >>, << <<"a">>, <<"b">> >>}

InitMain ==
    /\ flags \in [{"c", "x", "t", "C", "I"} -> BOOLEAN]
    /\ listFile \in IF flags.I
                    THEN UNION {[1..n -> FileChars] : n \in 0..MaxFileLen}
                    ELSE {<<>>}
    /\ \E paths \in ArgPaths :
          a = New(<<>>, <<>>, FALSE, paths, FALSE, FALSE, <<>>, <<>>)
    /\ effects = <<>>
    /\ Separator = "/"
    /\ verb = ""
    /\ pc = "main"
    /\ err = ""
    /\ unreadable = {}
    /\ disk = <<>>
    /\ stdio = <<>>
    /\ arg = <<>>
    /\ called = ""
    /\ got = <<>>
    /\ CreateIdle
    /\ ListIdle

NextMain == MainChdir \/ MainAddPaths \/ MainDispatch

SpecMain == InitMain /\ [][NextMain]_vars

-----------------------------------------------------------------------------
(* Spec: one run of Create over the host's files, or one run of            *)
(* ListOrExtract on a stored archive.                                      *)

\* The paths a run may be given: the working directory, a file, a file
\* outside the working directory whose safened name is that of the first,
\* and a path that names nothing.
PathArgs == {<<".">>, <<"a">>, <<".", ".", "/", "a">>, <<"n">>}

\* The comments a run may be given: none, one without and one with a final
\* newline, and one that is a marker line.
Comments ==
    {<<>>, <<"c">>, <<"c", "\n">>, <<"-", "-", " ", "m", " ", "-", "-">>}

\* The exclusions a run may be given.
Exclusions ==
    {[globs |-> <<>>, res |-> <<>>],
     [globs |-> << <<"a">> >>, res |-> <<>>],
     [globs |-> << <<"d">> >>, res |-> <<>>],
     [globs |-> <<>>, res |-> << <<"f">> >>],
     [globs |-> << <<"d">> >>, res |-> << <<"g">> >>],
     [globs |-> << <<"[">> >>, res |-> <<>>]}

\* What the archive file holds before the run.
OldArchive == <<"o", "l", "d", "\n">>

InitCreate ==
    /\ verb = "c"
    /\ pc = "begin"
    /\ \E comment \in Comments, filename \in {<<>>, <<"f">>},
          withGzip \in BOOLEAN, unsafePaths \in BOOLEAN,
          verbose \in BOOLEAN, excl \in Exclusions,
          paths \in UNION {[1..n -> PathArgs] : n \in 0..MaxPaths} :
          a = New(comment, filename, withGzip, paths, unsafePaths, verbose,
                  excl.globs, excl.res)
    /\ Separator = "/"
    /\ unreadable \in {{}, {<<"d">>}, {<<"d", "/", "f">>}}
    /\ err = ""
    /\ disk = OldArchive
    /\ stdio = <<>>
    /\ arg = <<>>
    /\ called = ""
    /\ got = <<>>
    /\ CreateIdle
    /\ ListIdle
    /\ MainIdle

\* The file lists a list or extract run may be given: none, a name, a glob,
\* both, a glob no file matches, and a malformed glob behind a good one.
GlobLists ==
    {<<>>,
     << <<"a">> >>,
     << <<"d", "/", "*">> >>,
     << <<"d", "/", "*">>, <<"a">> >>,
     << <<"n">> >>,
     << <<"a">>, <<"[">> >>}

\* The archives a list or extract run may find: one with a comment, whose
\* last name leads out of the working directory, one without a comment,
\* whose first name is rooted, and one with neither comment nor files.
Archives ==
    {[Comment |-> <<"c", "\n">>,
      Files   |-> <<[Name |-> <<"a">>, Data |-> <<"x", "\n">>],
                    [Name |-> <<"d", "/", "f">>, Data |-> <<"y", "\n">>],
                    [Name |-> <<".", ".", "/", "a">>, Data |-> <<"w", "\n">>]>>],
     [Comment |-> <<>>,
      Files   |-> <<[Name |-> <<"/", "a">>, Data |-> <<"w", "\n">>],
                    [Name |-> <<"d", "/", "g">>, Data |-> <<>>]>>],
     [Comment |-> <<>>, Files |-> <<>>]}

\* The bytes such an archive is stored as: plain, gzipped, and gzipped but
\* cut short.
Stored(archive) ==
    {Format(archive), Gzip(Format(archive)), <<GzipHeader>> \o Format(archive)}

InitListOrExtract ==
    /\ verb \in {"t", "x"}
    /\ pc = "begin"
    /\ \E filename \in {<<>>, <<"f">>}, withGzip \in BOOLEAN,
          unsafePaths \in BOOLEAN, verbose \in BOOLEAN, excl \in Exclusions,
          paths \in GlobLists, archive \in Archives :
          /\ a = New(<<>>, filename, withGzip, paths, unsafePaths, verbose,
                     excl.globs, excl.res)
          /\ \E b \in Stored(archive) :
                IF filename = <<>>
                THEN stdio = b /\ disk = <<>>
                ELSE disk = b /\ stdio = <<>>
    /\ Separator = "/"
    /\ unreadable = {}
    /\ err = ""
    /\ arg = <<>>
    /\ called = ""
    /\ got = <<>>
    /\ CreateIdle
    /\ ListIdle
    /\ MainIdle

Init == InitCreate \/ InitListOrExtract

Next ==
    \/ CreateBegin
    \/ Walk
    \/ OpenSink
    \/ WriteArchive
    \/ Load
    \/ ExtractFromArchive

Spec == Init /\ [][Next]_vars

-----------------------------------------------------------------------------
(* SpecPath: the safener applied to every short path, in both modes, on a  *)
(* host whose separator is "/" and on one whose separator is "\".          *)

PathChars == {"/", ".", "a", "\\"}

PathInputs == UNION {[1..n -> PathChars] : n \in 0..MaxPathLen}

InitPath ==
    /\ \E unsafePaths \in BOOLEAN :
          a = New(<<>>, <<>>, FALSE, <<>>, unsafePaths, FALSE, <<>>, <<>>)
    /\ Separator \in {"/", "\\"}
    /\ arg \in PathInputs
    /\ called = ""
    /\ got = <<>>
    /\ verb = ""
    /\ pc = "idle"
    /\ err = ""
    /\ unreadable = {}
    /\ disk = <<>>
    /\ stdio = <<>>
    /\ CreateIdle
    /\ ListIdle
    /\ MainIdle

CallToHostPath ==
    /\ called = ""
    /\ called' = "ToHostPath"
    /\ got' = ToHostPath(arg)
    /\ UNCHANGED <<a, Separator, arg, runVars, createVars, listVars, mainVars>>

CallFromHostPath ==
    /\ called = ""
    /\ called' = "FromHostPath"
    /\ got' = FromHostPath(arg)
    /\ UNCHANGED <<a, Separator, arg, runVars, createVars, listVars, mainVars>>

\* The earlier program's Clean (clean.go, package main), on a "/" host, with
\* its Unsafe flag (-P) as a.UnsafePaths: remove leading ../, then clean
\* stray ..'s and other silliness with filepath.Clean.
RECURSIVE TrimUpPrefix(_)
TrimUpPrefix(p) ==
    IF HasPrefix(p, <<".", ".", "/">>)
    THEN TrimUpPrefix(SubSeq(p, 4, Len(p)))
    ELSE p

main_Clean(p) == IF a.UnsafePaths THEN p ELSE Clean(TrimUpPrefix(p))

CallClean ==
    /\ called = ""
    /\ Separator = "/"
    /\ called' = "Clean"
    /\ got' = main_Clean(arg)
    /\ UNCHANGED <<a, Separator, arg, runVars, createVars, listVars, mainVars>>

\* A name Create made with FromHostPath, met again in an archive by a list
\* or extract run, which hands it to ToHostPath.
CallToHostPathOfName ==
    /\ called = "FromHostPath"
    /\ verb = ""
    /\ verb' = "x"
    /\ arg' = got
    /\ called' = "ToHostPath"
    /\ got' = ToHostPath(got)
    /\ UNCHANGED <<a, Separator, pc, err, unreadable, disk, stdio, createVars,
                   listVars, mainVars>>

NextPath ==
    \/ CallToHostPath
    \/ CallFromHostPath
    \/ CallClean
    \/ CallToHostPathOfName

SpecPath == InitPath /\ [][NextPath]_vars

-----------------------------------------------------------------------------
(* SpecExcluded: isExcluded applied to a path, for every short exclude     *)
(* glob, alone, behind and before another glob, with and without an        *)
(* exclude regex.                                                          *)

GlobChars == {"a", "*", "[", "]", "\\", "-", "^"}

GlobInputs == UNION {[1..n -> GlobChars] : n \in 0..MaxGlobLen}

\* The exclude glob lists made with the glob g.
GlobListsWith(g) == {<<g>>, << <<"a">>, g>>, <<g, <<"a">> >>}

InitExcluded ==
    /\ \E g \in GlobInputs, res \in {<<>>, << <<"b">> >>} :
          \E globs \in GlobListsWith(g) :
             a = New(<<>>, <<>>, FALSE, <<>>, FALSE, FALSE, globs, res)
    /\ Separator = "/"
    /\ arg \in {<<"a">>, <<"b">>}
    /\ called = ""
    /\ got = <<>>
    /\ verb = ""
    /\ pc = "idle"
    /\ err = ""
    /\ unreadable = {}
    /\ disk = <<>>
    /\ stdio = <<>>
    /\ CreateIdle
    /\ ListIdle
    /\ MainIdle

\* isExcluded's return, r, as the call leaves it: the boolean in got and the
\* error, if any, in err.
ReturnExcluded(r) ==
    /\ called' = "isExcluded"
    /\ got' = IF r.excl THEN <<"true">> ELSE <<"false">>
    /\ err' = IF r.err THEN "syntax error in pattern" ELSE ""

CallIsExcluded ==
    /\ called = ""
    /\ ReturnExcluded(isExcluded(arg))
    /\ UNCHANGED <<a, Separator, arg, verb, pc, unreadable, disk, stdio,
                   createVars, listVars, mainVars>>

NextExcluded == CallIsExcluded

SpecExcluded == InitExcluded /\ [][NextExcluded]_vars

-----------------------------------------------------------------------------
(* Claims about the safener, checked under SpecPath *)

\* The safener ran in Safe mode.
SafeCall == called # "" /\ ~a.UnsafePaths

\* The separator of the path a call returns: ToHostPath returns a host path,
\* FromHostPath a slash path.
GotSeparator == IF called = "ToHostPath" THEN Separator ELSE "/"

\* p is relative and its first segment is not "..".
StaysInside(p, sep) ==
    /\ p # <<>>
    /\ p[1] # sep
    /\ p # <<".", ".">>
    /\ ~HasPrefix(p, <<".", ".", sep>>)

\* C1: in Safe mode, for every input path, ToHostPath and FromHostPath return
\* a relative path with no leading separator whose first segment is not "..".
C1_SafeNeverEscapes == SafeCall => StaysInside(got, GotSeparator)

\* p without its leading "/" characters and "../" segments.
RECURSIVE StripLeading(_)
StripLeading(p) ==
    IF HasPrefix(p, <<"/">>) THEN StripLeading(Tail(p))
    ELSE IF HasPrefix(p, <<".", ".", "/">>)
    THEN StripLeading(SubSeq(p, 4, Len(p)))
    ELSE p

\* The segments of p between "/" characters, as a sequence of sequences.
RECURSIVE Segments(_)
Segments(p) ==
    LET e == ElementEnd(p, 0)
    IN  IF e >= Len(p) THEN <<p>>
        ELSE <<SubSeq(p, 1, e)>> \o Segments(SubSeq(p, e + 2, Len(p)))

\* r is a plain relative path: empty, or segments joined by single "/"
\* characters, none of them empty, "." or "..".
PlainRelative(r) ==
    \/ r = <<>>
    \/ \A i \in 1..Len(Segments(r)) :
          Segments(r)[i] \notin {<<>>, <<".">>, <<".", ".">>}

\* C2: in Safe mode, an archive name made of leading "../" segments and "/"
\* characters followed by a plain relative path r maps to the host path r
\* (written with the host's separator), and to "." when r is empty.
C2_LeadingEscapesStripped ==
    (/\ SafeCall
     /\ called = "ToHostPath"
     /\ PlainRelative(StripLeading(arg)))
    => LET r == StripLeading(arg)
       IN  got = IF r = <<>> THEN <<".">> ELSE ReplaceChar(r, "/", Separator)

\* C2's case: "../../a" was mapped to "a".
C2_Witness ==
    /\ SafeCall
    /\ called = "ToHostPath"
    /\ arg = <<".", ".", "/", ".", ".", "/", "a">>
    /\ got = <<"a">>

\* C3: in Unsafe mode ToHostPath and FromHostPath return their input with
\* only the separators converted, character for character.
C3_UnsafeIsSeparatorConversion ==
    (called # "" /\ a.UnsafePaths)
    => /\ Len(got) = Len(arg)
       /\ \A i \in 1..Len(arg) :
            got[i] = IF called = "ToHostPath" /\ arg[i] = "/" THEN Separator
                     ELSE IF called = "FromHostPath" /\ arg[i] = Separator
                     THEN "/"
                     ELSE arg[i]

\* C3's case: "/../a" went through unsafened on a "\" host, separators
\* converted and nothing else.
C3_Witness ==
    /\ a.UnsafePaths
    /\ Separator = "\\"
    /\ called = "ToHostPath"
    /\ arg = <<"/", ".", ".", "/", "a">>
    /\ got = <<"\\", ".", ".", "\\", "a">>

\* C22: in Safe mode safening is idempotent: a name FromHostPath made at
\* Create time, safened again by ToHostPath at extract time, maps to the host
\* path that the name spells, the name itself with the host's separator;
\* on a "/" host this is maybeSafenPath(maybeSafenPath(p)) =
\* maybeSafenPath(p).
C22_SafeningIdempotent ==
    (called = "ToHostPath" /\ verb = "x" /\ ~a.UnsafePaths)
    => got = ReplaceChar(arg, "/", Separator)

-----------------------------------------------------------------------------
(* Claims about Create's list of files, checked under Spec *)

\* C4: during Create the accumulated list of files never holds two entries
\* with the same Name, whatever roots were requested and walked.
C4_NoDuplicateNames ==
    \A i, j \in 1..Len(ta.Files) :
        i # j => ta.Files[i].Name # ta.Files[j].Name

\* C4's case: a root was given twice, or two host paths safened to one name,
\* and the walk function collected the second file of that name.
C4_Witness ==
    /\ pc = "walk"
    /\ visit.did = "replaced"
    /\ root = 2
    /\ \E i \in 1..Len(ta.Files) : ta.Files[i].Name = visit.name

\* The files of a list other than those named name, in their order.
Others(files, name) == SelectSeq(files, LAMBDA f : f.Name # name)

\* C5: when the walk function collects a file whose Name an entry of the list
\* already has, the list then holds exactly one entry of that Name, with the
\* data just read, as its last entry, and the other entries are those of
\* before in the same order.
C5_LastOccurrenceWins ==
    [][(pc = "walk" /\ visit'.did = "replaced")
       => /\ Cardinality({i \in 1..Len(ta'.Files) :
                             ta'.Files[i].Name = visit'.name}) = 1
          /\ ta'.Files[Len(ta'.Files)] =
                 [Name |-> visit'.name,
                  Data |-> HostFiles[Clean(visit'.path)]]
          /\ SubSeq(ta'.Files, 1, Len(ta'.Files) - 1)
                 = Others(ta.Files, visit'.name)
          /\ Len(Others(ta.Files, visit'.name)) = Len(ta.Files) - 1]_vars

\* C5's case: after a walk of "." the file a was collected again, and moved
\* from the head of the list to its end, behind d/f and d/g.
C5_Witness ==
    /\ visit.did = "replaced"
    /\ visit.name = <<"a">>
    /\ Len(ta.Files) = 3
    /\ ta.Files[1].Name = <<"d", "/", "f">>
    /\ ta.Files[2].Name = <<"d", "/", "g">>
    /\ ta.Files[3].Name = <<"a">>

-----------------------------------------------------------------------------
(* Claims about exclusion, checked under Spec *)

\* One of a's exclude globs or one of its exclude regexes matches p.
ExclusionMatches(p) ==
    \/ \E i \in 1..Len(a.ExcludeGlobs) : Match(a.ExcludeGlobs[i], p).matched
    \/ \E i \in 1..Len(a.ExcludeREs) : MatchString(a.ExcludeREs[i], p)

\* C6, as stated: no entry of the list Create builds has a Name that an
\* exclusion matches, and ListOrExtract writes no file whose path an
\* exclusion matches.
C6_NoExcludedName ==
    /\ \A i \in 1..Len(ta.Files) : ~ExclusionMatches(ta.Files[i].Name)
    /\ \A fn \in DOMAIN tree.files : ~ExclusionMatches(fn)

\* C6, amended: Create's list changes only when the walk function collects a
\* file whose walked host path no exclusion matches, and ListOrExtract prints
\* or writes for an entry only when no exclusion matches the entry's safened
\* host path; both whatever the requested paths are.
C6_ExcludedPathNeverProcessed ==
    [][/\ (verb = "c" /\ ta'.Files # ta.Files)
          => pc = "walk" /\ ~ExclusionMatches(Head(pending).path)
       /\ (verb \in {"t", "x"} /\ pc = "files" /\ (w' # w \/ tree' # tree))
          => ~ExclusionMatches(ToHostPath(ar.Files[fi].Name))]_vars

\* C6's case: Create was asked for a and for ".", with the glob a excluded;
\* it met a twice, collected d/f and d/g only, and went on to its sink.
C6_Witness ==
    /\ verb = "c"
    /\ pc = "open"
    /\ a.Paths = << <<"a">>, <<".">> >>
    /\ a.ExcludeGlobs = << <<"a">> >>
    /\ Len(ta.Files) = 2
    /\ ta.Files[1].Name = <<"d", "/", "f">>
    /\ ta.Files[2].Name = <<"d", "/", "g">>

\* The proper prefixes of path that end before a "/".
Above(path) ==
    {SubSeq(path, 1, i - 1) : i \in {j \in 2..Len(path) : path[j] = "/"}}

\* The directories the walk of the root r went through to reach path.
WalkedAbove(path, r) ==
    IF path = r THEN {}
    ELSE {r} \cup {p \in Above(path) : r = <<".">> \/ Len(p) > Len(r)}

\* C7: the walk function is never called for a path below a directory that
\* an exclusion matches.
C7_ExcludedSubtreePruned ==
    [][pc = "walk"
       => \A p \in WalkedAbove(Head(pending).path, a.Paths[root]) :
              ~ExclusionMatches(p)]_vars

-----------------------------------------------------------------------------
(* Claims about Create's errors and its output, checked under Spec *)

\* C8: a failure to visit a node or to read a file does not end Create with
\* that failure.
C8_VisitFailureNonFatal ==
    (verb = "c" /\ visit.ret \in {"access", "reading"})
    => ~(pc = "done" /\ err = "adding")

\* C9: with a marker line in the Comment, Create does not open or truncate
\* its sink, writes nothing to it, and does not return nil.
C9_MarkerCommentRefused ==
    (verb = "c" /\ hasMarkerLine(a.Comment))
    => /\ ~opened
       /\ written = <<>>
       /\ disk = OldArchive
       /\ stdio = <<>>
       /\ (pc = "done" => err # "nil")

\* Create has handed its bytes to the sink's Write and returned nil.
Wrote == verb = "c" /\ pc = "done" /\ err = "nil"

\* d, with a final newline added if it is not empty and has none.
WithFinalNewline(d) ==
    IF d # <<>> /\ d[Len(d)] # "\n" THEN Append(d, "\n") ELSE d

\* C10, as stated: for a Comment without a marker line, parsing the bytes
\* Create wrote gives the Comment and the list of files Create built.
C10_RoundTrip ==
    (Wrote /\ ~hasMarkerLine(a.Comment))
    => Parse(written) = [Comment |-> a.Comment, Files |-> ta.Files]

\* C10, amended: for a Comment without a marker line and files whose Data
\* have none either, parsing the bytes Create wrote gives the Comment and the
\* files Create built, same Names, same order, each Comment and Data with a
\* final newline added where it had none.
C10_RoundTripUpToNewline ==
    (/\ Wrote
     /\ ~hasMarkerLine(a.Comment)
     /\ \A i \in 1..Len(ta.Files) : ~hasMarkerLine(ta.Files[i].Data))
    => /\ Parse(written).Comment = WithFinalNewline(a.Comment)
       /\ Len(Parse(written).Files) = Len(ta.Files)
       /\ \A i \in 1..Len(ta.Files) :
            Parse(written).Files[i] =
                [Name |-> ta.Files[i].Name,
                 Data |-> WithFinalNewline(ta.Files[i].Data)]

\* C10's case: Create wrote the comment "c" and the files a, whose data "x"
\* has no final newline, and d/f; parsing gives "c\n" and "x\n".
C10_Witness ==
    /\ Wrote
    /\ a.Comment = <<"c">>
    /\ Len(ta.Files) = 2
    /\ ta.Files[1] = [Name |-> <<"a">>, Data |-> <<"x">>]
    /\ ta.Files[2].Name = <<"d", "/", "f">>
    /\ Parse(written).Comment = <<"c", "\n">>
    /\ Parse(written).Files[1].Data = <<"x", "\n">>

-----------------------------------------------------------------------------
(* Claims about gzip, checked under Spec *)

\* The archive stream of the run: the file named a.Filename, or the
\* standard stream.
Sink == IF a.Filename = <<>> THEN stdio ELSE disk

\* The bytes between the header and the trailer of a gzip stream z when
\* a.WithGzip, z itself otherwise.
Plain(z) == IF a.WithGzip THEN SubSeq(z, 2, Len(z) - 1) ELSE z

\* ListOrExtract has parsed its archive.
Loaded ==
    /\ verb \in {"t", "x"}
    /\ pc = "files" \/ (pc = "done" /\ err \in {"nil", "processing"})

\* C11: when Create's sink took everything, what it holds is, with WithGzip,
\* one gzip stream around exactly the bytes Create writes without WithGzip,
\* the encoding of the Comment and the collected files; and the archive
\* ListOrExtract parses with WithGzip from a compressed stream is the one it
\* parses without WithGzip from the bytes inside that stream.
C11_GzipWrapsWholeStream ==
    /\ (Wrote /\ sinkio = "ok")
       => /\ Plain(Sink) = Format([Comment |-> a.Comment, Files |-> ta.Files])
          /\ a.WithGzip
             => Sink[1] = GzipHeader /\ Sink[Len(Sink)] = GzipTrailer
    /\ Loaded => ar = Parse(Plain(Sink))

\* C11's case: Create wrote three files through gzip, and the sink holds a
\* stream around what was handed to Write.
C11_Witness ==
    /\ Wrote
    /\ sinkio = "ok"
    /\ a.WithGzip
    /\ Len(ta.Files) = 3
    /\ Sink # written
    /\ Plain(Sink) = written

-----------------------------------------------------------------------------
(* Claims about ListOrExtract's selection and output, checked under Spec *)

\* extractFromArchive is called for the file in hand.
InEntry == verb \in {"t", "x"} /\ pc = "files"

\* The name on the host of the file in hand.
EntryHost == ToHostPath(ar.Files[fi].Name)

\* The file in hand is on the list, if there is one: a.Paths is empty or one
\* of its globs matches the file's host name.
OnList ==
    \/ a.Paths = <<>>
    \/ \E i \in 1..Len(a.Paths) : Match(a.Paths[i], EntryHost).matched

\* C12: when extractFromArchive returns nil for an entry no exclusion
\* matches, the entry was listed (a line was printed) or extracted (its file
\* holds its data) if a.Paths is empty or one of its globs matches the
\* entry's safened host path, and else nothing was printed or written.
C12_ListedIffOnList ==
    [][(InEntry /\ err' # "processing" /\ ~ExclusionMatches(EntryHost))
       => IF OnList
          THEN /\ verb = "t" => w' # w /\ tree' = tree
               /\ verb = "x"
                  => /\ Clean(EntryHost) \in DOMAIN tree'.files
                     /\ tree'.files[Clean(EntryHost)] = ar.Files[fi].Data
          ELSE w' = w /\ tree' = tree]_vars

\* C12's case: a list of a, d/f and ../a with the globs d/* and a; every
\* entry was on the list, the second by the first glob and the others by
\* the second, and all were listed.
C12_Witness ==
    /\ verb = "t"
    /\ pc = "done"
    /\ err = "nil"
    /\ ~a.Verbose
    /\ ~a.UnsafePaths
    /\ a.ExcludeGlobs = <<>> /\ a.ExcludeREs = <<>>
    /\ a.Paths = << <<"d", "/", "*">>, <<"a">> >>
    /\ Len(ar.Files) = 3
    /\ w = <<"a", "\n", "d", "/", "f", "\n", "a", "\n">>

\* The requested paths that match no entry of the archive, by their index
\* in a.Paths.
Unmatched ==
    {i \in 1..Len(a.Paths) :
        \A j \in 1..Len(ar.Files) :
            ~Match(a.Paths[i], ToHostPath(ar.Files[j].Name)).matched}

\* C13: when ListOrExtract has gone through every entry and returns, each
\* requested path that matched no entry has been reported, on standard
\* error or in the error returned.
C13_UnmatchedReported ==
    (verb \in {"t", "x"} /\ pc = "done" /\ err \notin {"reading",
        "initializing gunzipper", "gunzipping", "printing comment",
        "processing"})
    => \A i \in Unmatched :
           \/ \E k \in 1..Len(stderr) : stderr[k] = a.Paths[i]
           \/ err # "nil"

\* C14: a failure for one entry (its directory cannot be made, its file
\* cannot be written, a glob of a.Paths is malformed) does not end
\* ListOrExtract: it does not return the failure, and no later entry is left
\* unprocessed.
C14_EntryFailureNonFatal ==
    (/\ verb \in {"t", "x"}
     /\ visit.ret \in {"creating directory", "writing", "invalid glob"})
    => /\ err # "processing"
       /\ pc = "done" => fi = Len(ar.Files)

-----------------------------------------------------------------------------
(* Claims about Create's sink, checked under Spec *)

\* C15: when the sink could not be opened, or a write to it failed, be it at
\* the Write or when the gzip stream or the file was closed, Create does not
\* return nil.
C15_SinkFailureReported ==
    (verb = "c" /\ pc = "done" /\ sinkio \in {"open", "write", "close"})
    => err # "nil"

\* Create has returned an error.
CreateFailed == verb = "c" /\ pc = "done" /\ err # "nil"

\* C16, as stated: whenever Create returns an error, the file named
\* a.Filename holds what it held before.
C16_FailedCreateKeepsFile == CreateFailed => disk = OldArchive

\* C16, amended: when Create returns an error from collecting the files or
\* from opening the file named a.Filename, the file holds what it held
\* before; when it returns an error from writing, the file has been
\* truncated and holds no more than a part of the new archive.
C16_FailureBeforeWriteKeepsFile ==
    /\ (CreateFailed /\ err \in {"adding", "creating archive file"})
       => disk = OldArchive
    /\ (CreateFailed /\ err = "writing archive" /\ a.Filename # <<>>)
       => /\ disk # OldArchive
          /\ Len(disk) < Len(OldArchive) + Len(Framed(Format(ta)))
          /\ disk = SubSeq(Framed(Format(ta)), 1, Len(disk))

\* C16's case: the file named a.Filename could not be opened, Create
\* returned the error, and the file holds the old archive.
C16_Witness ==
    /\ CreateFailed
    /\ a.Filename # <<>>
    /\ sinkio = "open"
    /\ err = "creating archive file"
    /\ Len(ta.Files) = 3
    /\ disk = OldArchive

-----------------------------------------------------------------------------
(* Claims about AddPathsFromFile and main, checked under SpecMain *)

\* The lines of the -I file, trimmed, without the blank ones, in file order.
FileLines ==
    SelectSeq([i \in 1..Len(ScanLines(listFile)) |->
                  TrimSpace(ScanLines(listFile)[i])],
              LAMBDA l : l # <<>>)

\* How often x occurs in seq.
Count(seq, x) == Cardinality({i \in 1..Len(seq) : seq[i] = x})

\* Where x first occurs in seq.
FirstIn(seq, x) ==
    CHOOSE i \in 1..Len(seq) : seq[i] = x /\ \A j \in 1..(i - 1) : seq[j] # x

\* What a successful AddPathsFromFile put behind the paths it found.
Added == SubSeq(a'.Paths, Len(a.Paths) + 1, Len(a'.Paths))

\* C17: a successful AddPathsFromFile keeps the paths it found as a prefix
\* and appends lines of the file only, each once, none that was there
\* already, in the order of their first occurrence in the file; every line
\* of the file is in the paths afterwards, as often as before if it was
\* there and once if it was not; and nothing else of the Archiver changes.
C17_AddPathsAppendsNewLines ==
    [][(pc = "paths" /\ flags.I /\ pc' = "verbs")
       => /\ Len(a'.Paths) >= Len(a.Paths)
          /\ SubSeq(a'.Paths, 1, Len(a.Paths)) = a.Paths
          /\ \A i \in 1..Len(Added) :
                /\ Count(Added, Added[i]) = 1
                /\ Count(a.Paths, Added[i]) = 0
                /\ Count(FileLines, Added[i]) >= 1
          /\ \A k \in 1..Len(FileLines) :
                Count(a'.Paths, FileLines[k]) =
                    IF Count(a.Paths, FileLines[k]) = 0 THEN 1
                    ELSE Count(a.Paths, FileLines[k])
          /\ \A i, j \in 1..Len(Added) :
                i < j => FirstIn(FileLines, Added[i])
                             < FirstIn(FileLines, Added[j])
          /\ a' = [a EXCEPT !.Paths = a'.Paths]]_vars

\* C17's case: the paths were b and b, the file's lines are "b" and " a";
\* b was not added again and a was appended.
C17_Witness ==
    /\ pc = "verbs"
    /\ flags.I
    /\ listFile = <<"b", "\n", " ", "a">>
    /\ a.Paths = << <<"b">>, <<"b">>, <<"a">> >>

\* The calls main has made of Create ("c"), of ListOrExtract to extract
\* ("x") and of ListOrExtract to list ("t"), in order.
VerbsRun == SelectSeq(effects, LAMBDA e : e \in {"c", "x", "t"})

-----------------------------------------------------------------------------
(* Claim about the earlier program's Clean, checked under SpecPath *)

\* C19: Clean without Unsafe never returns ".." or a path that starts with
\* "../", whatever its input; with Unsafe it returns its input.
C19_CleanNeverStartsUp ==
    called = "Clean"
    => IF a.UnsafePaths THEN got = arg
       ELSE got # <<".", ".">> /\ ~HasPrefix(got, <<".", ".", "/">>)

-----------------------------------------------------------------------------
(* Claim about ListOrExtract's output, checked under Spec *)

\* The name on the host of the archive's j-th file.
HostName(j) == ToHostPath(ar.Files[j].Name)

\* The archive's j-th file is selected: no exclusion matches its host name,
\* and a.Paths is empty or one of its globs matches it.
Selected(j) ==
    /\ ~ExclusionMatches(HostName(j))
    /\ \/ a.Paths = <<>>
       \/ \E i \in 1..Len(a.Paths) : Match(a.Paths[i], HostName(j)).matched

\* The line due for the archive's j-th file: when listing, the name, behind
\* the length of the data and a tab if verbose; when extracting, the name
\* if verbose and nothing if not.
EntryLine(j) ==
    IF verb = "t" /\ a.Verbose
    THEN Decimal(Len(ar.Files[j].Data)) \o <<"\t">> \o HostName(j) \o <<"\n">>
    ELSE IF verb = "t" \/ a.Verbose THEN HostName(j) \o <<"\n">>
    ELSE <<>>

\* The lines due for the selected ones of the archive's files j to k.
RECURSIVE EntryLines(_, _)
EntryLines(j, k) ==
    IF j > k THEN <<>>
    ELSE (IF Selected(j) THEN EntryLine(j) ELSE <<>>) \o EntryLines(j + 1, k)

\* What is due before any entry line: when verbose, the comment and a
\* newline, or "-No Comment-" and an empty line.
CommentLines ==
    IF ~a.Verbose THEN <<>>
    ELSE IF ar.Comment = <<>>
    THEN <<"-", "N", "o", " ", "C", "o", "m", "m", "e", "n", "t", "-", "\n",
           "\n">>
    ELSE ar.Comment \o <<"\n">>

\* C20: ListOrExtract's output is, at every turn of its loop and when it
\* returns nil, the comment once if verbose, then one line for each selected
\* entry gone through, in archive order, and nothing for the others.
C20_OutputInArchiveOrder ==
    /\ (verb \in {"t", "x"} /\ pc = "files")
       => w = CommentLines \o EntryLines(1, fi - 1)
    /\ (verb \in {"t", "x"} /\ pc = "done" /\ err = "nil")
       => w = CommentLines \o EntryLines(1, Len(ar.Files))

\* C20's case: a verbose list of a, d/f and ../a with the regex f excluded
\* printed the comment, then a's and ../a's sizes and host names.
C20_Witness ==
    /\ verb = "t"
    /\ pc = "done"
    /\ err = "nil"
    /\ a.Verbose
    /\ a.ExcludeREs = << <<"f">> >>
    /\ w = <<"c", "\n", "\n", "2", "\t", "a", "\n", "2", "\t", "a", "\n">>

-----------------------------------------------------------------------------
(* Claims about the exclusion matcher, checked under SpecExcluded *)

\* The syntax of a glob, as path.Match documents it:
\*   pattern:         { term }
\*   term:            '*' | '?' | '[' [ '^' ] { character-range } ']'
\*                    | c | '\\' c
\*   character-range: c | '\\' c | lo '-' hi
\* where a class is not empty and an unescaped c of a class is none of
\* '\\', '-' and ']'.  A parse is [ok, rest].
NoParse == [ok |-> FALSE, rest |-> <<>>]

\* One character of a class, escaped or not, at the head of p.
RangeChar(p) ==
    IF p = <<>> \/ p[1] \in {"-", "]"} THEN NoParse
    ELSE IF p[1] # "\\" THEN [ok |-> TRUE, rest |-> Tail(p)]
    ELSE IF Len(p) < 2 THEN NoParse
    ELSE [ok |-> TRUE, rest |-> SubSeq(p, 3, Len(p))]

\* One character-range at the head of p, whose lo parsed as lo.
CharacterRangeFrom(lo) ==
    IF lo.ok /\ lo.rest # <<>> /\ lo.rest[1] = "-"
    THEN RangeChar(Tail(lo.rest))
    ELSE lo

\* The character-ranges of a class and its closing ']', n of them parsed.
RECURSIVE ClassEnd(_, _)
ClassEndAfter(r, n) == IF r.ok THEN ClassEnd(r.rest, n + 1) ELSE NoParse

ClassEnd(p, n) ==
    IF p = <<>> THEN NoParse
    ELSE IF p[1] = "]" /\ n > 0 THEN [ok |-> TRUE, rest |-> Tail(p)]
    ELSE ClassEndAfter(CharacterRangeFrom(RangeChar(p)), n)

RECURSIVE WellFormed(_)
WellFormedAfter(c) == c.ok /\ WellFormed(c.rest)

WellFormed(p) ==
    IF p = <<>> THEN TRUE
    ELSE IF p[1] = "\\" THEN Len(p) >= 2 /\ WellFormed(SubSeq(p, 3, Len(p)))
    ELSE IF p[1] # "[" THEN WellFormed(Tail(p))
    ELSE IF Len(p) > 1 /\ p[2] = "^"
    THEN WellFormedAfter(ClassEnd(SubSeq(p, 3, Len(p)), 0))
    ELSE WellFormedAfter(ClassEnd(Tail(p), 0))

\* The i-th exclude glob is the first to match arg, and path.Match found no
\* fault with a glob before it.
FirstGlobMatch(i) ==
    /\ Match(a.ExcludeGlobs[i], arg).matched
    /\ \A j \in 1..(i - 1) :
          /\ ~Match(a.ExcludeGlobs[j], arg).matched
          /\ ~Match(a.ExcludeGlobs[j], arg).err

\* No exclude glob matches arg or is found faulty, and exclude regex i
\* matches arg.
RegexMatchAfterGlobs(i) ==
    /\ MatchString(a.ExcludeREs[i], arg)
    /\ \A j \in 1..Len(a.ExcludeGlobs) :
          /\ ~Match(a.ExcludeGlobs[j], arg).matched
          /\ ~Match(a.ExcludeGlobs[j], arg).err

\* C21: isExcluded tries the exclude globs in their order and then the
\* exclude regexes; it returns true exactly when a glob matches before any
\* glob was found faulty, or no glob matches or is faulty and a regex
\* matches; it returns false without an error only if no glob and no regex
\* matches; and with a malformed glob among the exclude globs it never
\* returns false without an error, whatever the path.
C21_MalformedGlobNeverPasses ==
    called = "isExcluded" =>
        /\ (got = <<"true">>)
              <=> \/ \E i \in 1..Len(a.ExcludeGlobs) : FirstGlobMatch(i)
                  \/ \E i \in 1..Len(a.ExcludeREs) : RegexMatchAfterGlobs(i)
        /\ (got = <<"true">>) => err = ""
        /\ (got = <<"false">> /\ err = "") => ~ExclusionMatches(arg)
        /\ (\E i \in 1..Len(a.ExcludeGlobs) : ~WellFormed(a.ExcludeGlobs[i]))
              => ~(got = <<"false">> /\ err = "")

\* C21's case: a class that is never closed stands behind a glob that does
\* not match b and before a regex that does; isExcluded returned false with
\* the pattern's error.
C21_Witness ==
    /\ called = "isExcluded"
    /\ a.ExcludeGlobs = << <<"a">>, <<"[", "a", "-">> >>
    /\ a.ExcludeREs = << <<"b">> >>
    /\ arg = <<"b">>
    /\ got = <<"false">>
    /\ err = "syntax error in pattern"

====
